---- MODULE Spec2Model ----
(***************************************************************************)
(* Model of cac_ltv_analysis.py: a linear script that loads a CSV of       *)
(* customer records, derives CAC / LTV / LTV:CAC per acquisition channel,  *)
(* simulates a 13-month retention curve per signup cohort and writes four  *)
(* chart images.                                                           *)
(*                                                                         *)
(* Numbers.  The script computes in IEEE doubles.  The model computes      *)
(* exactly: a column value is a rational <<n, d>> in lowest terms (d = 0   *)
(* stands for the non-finite results of a division by zero), and a power   *)
(* (1 - avg_churn) ** month is a signed fixed-point number written in base *)
(* q, the denominator of 1 - avg_churn, so that no intermediate exceeds    *)
(* the 32-bit integers of the model checker.  The churn values of the      *)
(* input domains were chosen so that, for every cohort of up to four       *)
(* records, the double evaluation of                                       *)
(* int(initial_customers * (1 - avg_churn) ** month) equals the exact one. *)
(***************************************************************************)
EXTENDS Integers, Sequences, FiniteSets, TLC

(***************************************************************************)
(* Bounds of the model.                                                    *)
(***************************************************************************)
\* largest number of records in an input table of the cohort domain
MaxRecords == 2
\* largest number of records in an input table of the LTV and channel domains
MaxCustomers == 3

(***************************************************************************)
(* Exact arithmetic on rationals <<n, d>>.                                 *)
(***************************************************************************)
Abs(x) == IF x < 0 THEN -x ELSE x

Sign(x) == IF x < 0 THEN -1 ELSE IF x > 0 THEN 1 ELSE 0

RECURSIVE GCD(_, _)
GCD(a, b) == IF b = 0 THEN a ELSE GCD(b, a % b)

\* n/d in lowest terms with a positive denominator; d = 0 gives inf/-inf/nan
Rat(n, d) ==
    IF d = 0 THEN <<Sign(n), 0>>
    ELSE LET g == GCD(Abs(n), Abs(d))
             s == IF d < 0 THEN -1 ELSE 1
         IN  <<(s * n) \div g, (s * d) \div g>>

Zero == <<0, 1>>
One == <<1, 1>>
NaN == <<0, 0>>

IsFinite(a) == a[2] # 0

RAdd(a, b) ==
    IF IsFinite(a) /\ IsFinite(b) THEN Rat(a[1] * b[2] + b[1] * a[2], a[2] * b[2])
    ELSE IF IsFinite(a) THEN b
    ELSE IF IsFinite(b) THEN a
    ELSE IF a = b THEN a ELSE NaN

RSub(a, b) == RAdd(a, <<-b[1], b[2]>>)

RMul(a, b) ==
    IF IsFinite(a) /\ IsFinite(b) THEN Rat(a[1] * b[1], a[2] * b[2])
    ELSE <<Sign(a[1]) * Sign(b[1]), 0>>

\* float division: x / 0 is inf, -inf or nan, never an exception
RDiv(a, b) ==
    IF IsFinite(a) /\ IsFinite(b) THEN Rat(a[1] * b[2], a[2] * b[1])
    ELSE IF IsFinite(a) THEN (IF b = NaN THEN NaN ELSE Zero)
    ELSE IF IsFinite(b) THEN <<a[1] * (IF b[1] < 0 THEN -1 ELSE 1), 0>>
    ELSE NaN

RECURSIVE SumSeq(_)
SumSeq(s) == IF s = <<>> THEN Zero ELSE RAdd(Head(s), SumSeq(Tail(s)))

\* Series.mean(): sum / count (nan for an empty series)
Mean(s) == RDiv(SumSeq(s), <<Len(s), 1>>)

(***************************************************************************)
(* Signed fixed-point numbers in base b: magnitude int + 0.frac (base-b    *)
(* digits, most significant first), negative when neg.                     *)
(***************************************************************************)
\* <<carry, digits>> of frac * k
RECURSIVE MulFrac(_, _, _)
MulFrac(frac, k, b) ==
    IF frac = <<>> THEN <<0, <<>>>>
    ELSE LET rest == MulFrac(Tail(frac), k, b)
             v == Head(frac) * k + rest[1]
         IN  <<v \div b, <<v % b>> \o rest[2]>>

\* x * k for an integer k
FixMul(x, k) ==
    LET m == MulFrac(x.frac, Abs(k), x.base)
    IN  [neg |-> (x.neg /\ k > 0) \/ (~x.neg /\ k < 0),
         int |-> x.int * Abs(k) + m[1],
         frac |-> m[2],
         base |-> x.base]

\* x / base
FixShift(x) ==
    [neg |-> x.neg,
     int |-> x.int \div x.base,
     frac |-> <<x.int % x.base>> \o x.frac,
     base |-> x.base]

\* r ** m for a finite rational r and m >= 0; r ** 0 is 1 for every r
RECURSIVE Pow(_, _)
Pow(r, m) ==
    IF m = 0 THEN [neg |-> FALSE, int |-> 1, frac |-> <<>>, base |-> r[2]]
    ELSE FixShift(FixMul(Pow(r, m - 1), r[1]))

FracIsZero(x) == \A i \in 1..Len(x.frac) : x.frac[i] = 0

\* int(x): truncation toward zero
Trunc(x) == IF x.neg THEN -x.int ELSE x.int

\* math.floor(x): the largest integer <= x
Floor(x) ==
    IF x.neg THEN (IF FracIsZero(x) THEN -x.int ELSE -x.int - 1) ELSE x.int

(***************************************************************************)
(* Strings are sequences of one-character strings.                        *)
(***************************************************************************)
\* the characters of a cohort label, in code-point order
Chars == <<"-", "0", "1", "2", "3", "4", "5", "6", "7", "8", "9">>

CharRank(c) == CHOOSE i \in 1..Len(Chars) : Chars[i] = c

\* str(n) of an integer
RECURSIVE Str(_)
Str(n) ==
    IF n < 0 THEN <<"-">> \o Str(-n)
    ELSE IF n < 10 THEN <<Chars[n + 2]>>
    ELSE Str(n \div 10) \o <<Chars[(n % 10) + 2]>>

\* s.zfill(width) of an unsigned digit string
RECURSIVE ZFill(_, _)
ZFill(s, width) == IF Len(s) >= width THEN s ELSE ZFill(<<"0">> \o s, width)

\* s < t in Python's string order
RECURSIVE StrLess(_, _)
StrLess(s, t) ==
    IF t = <<>> THEN FALSE
    ELSE IF s = <<>> THEN TRUE
    ELSE IF Head(s) = Head(t) THEN StrLess(Tail(s), Tail(t))
    ELSE CharRank(Head(s)) < CharRank(Head(t))

(***************************************************************************)
(* Input domains.  A table is a sequence of customer records; csv.ok is    *)
(* FALSE when cac_ltv_model.csv is missing or cannot be parsed.            *)
(***************************************************************************)
\* acquisition channels and regions, each in Python's string order
ChannelNames == <<"Google Ads", "Organic Search">>
RegionNames == <<"Europe", "North America">>

Rank(names, s) == CHOOSE i \in 1..Len(names) : names[i] = s

\* signup (year, month) pairs: two share the year, two share the month
Signups == {<<2023, 1>>, <<2023, 12>>, <<2024, 1>>}
\* raw churn rates, two of them outside [0, 1]
ChurnValues == {<<-1, 2>>, <<0, 1>>, <<1, 2>>, <<1, 1>>, <<5, 4>>}

Customer(i, ch, rg, a, g, c, s, y, m) ==
    [customer_id |-> i, acquisition_channel |-> ch, region |-> rg, arpu |-> a,
     gross_margin |-> g, churn_rate |-> c, marketing_spend |-> s,
     year |-> y, month |-> m]

\* tables that vary the signup cohort and the churn rate
CohortTables ==
    UNION {
      {[i \in 1..n |->
            Customer(i, "Organic Search", "Europe", <<100, 1>>, <<1, 2>>,
                     t[i][2], <<50, 1>>, t[i][1][1], t[i][1][2])] :
        t \in [1..n -> Signups \X ChurnValues]} :
      n \in 0..MaxRecords}

\* tables that vary the gross margin and the churn rate, 0 and 0.0001 included
LtvTables ==
    UNION {
      {[i \in 1..n |->
            Customer(i, "Organic Search", "Europe", <<100, 1>>, t[i][1],
                     t[i][2], <<50, 1>>, 2023, 1)] :
        t \in [1..n -> {<<1, 2>>, <<1, 1>>}
                         \X {<<0, 1>>, <<1, 10000>>, <<1, 2>>}]} :
      n \in 0..MaxCustomers}

\* tables that vary the channel (and with it the region), the churn rate and
\* the marketing spend
ChannelTables ==
    UNION {
      {[i \in 1..n |->
            Customer(i, t[i][1], RegionNames[Rank(ChannelNames, t[i][1])],
                     <<100, 1>>, <<1, 2>>, t[i][2], t[i][3], 2023, 1)] :
        t \in [1..n -> {ChannelNames[k] : k \in 1..Len(ChannelNames)}
                         \X {<<0, 1>>, <<1, 2>>}
                         \X {<<50, 1>>, <<100, 1>>}]} :
      n \in 0..MaxCustomers}

(***************************************************************************)
(* The program's state.                                                    *)
(***************************************************************************)
VARIABLES
    pc,                 \* the statement the script is at
    csv,                \* the input file cac_ltv_model.csv
    df,                 \* the loaded table
    cac_by_channel,     \* rows [acquisition_channel, marketing_spend]
    churn_rate_adj,     \* column df["churn_rate_adj"]
    ltv,                \* column df["ltv"]
    ltv_by_channel,     \* rows [acquisition_channel, ltv]
    ltv_cac,            \* the merged table, later with ltv_cac_ratio
    cohort_month,       \* column df["cohort_month"]
    cohort_sizes,       \* rows [cohort_month, num_customers]
    cohorts,            \* the keys df.groupby("cohort_month") iterates over
    ci,                 \* position of the cohort loop in cohorts
    initial_customers,  \* of the current cohort
    avg_churn,          \* of the current cohort
    month,              \* the inner loop's month
    retention_records,  \* the emitted retention points
    cohort_matrix,      \* the pivot of retention_records
    arpu_region,        \* rows [region, arpu]
    files               \* the image files written, in order

vars == <<pc, csv, df, cac_by_channel, churn_rate_adj, ltv, ltv_by_channel,
          ltv_cac, cohort_month, cohort_sizes, cohorts, ci, initial_customers,
          avg_churn, month, retention_records, cohort_matrix, arpu_region, files>>

(***************************************************************************)
(* Table helpers.                                                          *)
(***************************************************************************)
Range(s) == {s[i] : i \in 1..Len(s)}

Column(t, f) == [i \in 1..Len(t) |-> t[i][f]]

\* sorted(S) for a set of strings (sequences of characters)
RECURSIVE SortStrings(_)
SortStrings(S) ==
    IF S = {} THEN <<>>
    ELSE LET lo == CHOOSE x \in S : \A y \in S \ {x} : StrLess(x, y)
         IN  <<lo>> \o SortStrings(S \ {lo})

\* sorted(S) for a set of names, names being in Python's string order
RECURSIVE SortNames(_, _)
SortNames(S, names) ==
    IF S = {} THEN <<>>
    ELSE LET lo == CHOOSE x \in S : \A y \in S \ {x} : Rank(names, x) < Rank(names, y)
         IN  <<lo>> \o SortNames(S \ {lo}, names)

\* the rows of vals whose key is k, in input order
RECURSIVE Select(_, _, _)
Select(keys, vals, k) ==
    IF keys = <<>> THEN <<>>
    ELSE (IF Head(keys) = k THEN <<Head(vals)>> ELSE <<>>)
         \o Select(Tail(keys), Tail(vals), k)

\* groupby(key)[val].mean().reset_index(): one row per distinct key, sorted
GroupMean(keys, vals, names) ==
    LET ks == SortNames(Range(keys), names)
    IN  [j \in 1..Len(ks) |-> [k |-> ks[j], v |-> Mean(Select(keys, vals, ks[j]))]]

\* pd.merge(l, r, on="acquisition_channel"): the inner join, in l's order
RECURSIVE MergeOnChannel(_, _)
MergeOnChannel(l, r) ==
    IF l = <<>> THEN <<>>
    ELSE LET Same(x) == x.acquisition_channel = Head(l).acquisition_channel
             m == SelectSeq(r, Same)
         IN  [j \in 1..Len(m) |->
                 [acquisition_channel |-> Head(l).acquisition_channel,
                  ltv |-> Head(l).ltv,
                  marketing_spend |-> m[j].marketing_spend]]
             \o MergeOnChannel(Tail(l), r)

(***************************************************************************)
(* The script's row-wise derivations.                                      *)
(***************************************************************************)
\* the substitute for a churn rate of 0
ChurnFloor == <<1, 10000>>

\* the replace is forgotten
ChurnRateAdj_raw(churn_rate) == churn_rate

\* df["churn_rate"].replace(0, 0.0001), one value
ChurnRateAdj(churn_rate) == IF churn_rate = Zero THEN ChurnFloor ELSE churn_rate

\* (arpu * gross_margin) / churn_rate_adj, one row
Ltv(arpu, gross_margin, adj) == RDiv(RMul(arpu, gross_margin), adj)

\* the label leaves out the year
CohortMonth_month(y, m) == ZFill(Str(m), 2)

\* year.astype(str) + "-" + month.astype(str).str.zfill(2), one row
CohortMonth(y, m) == Str(y) \o <<"-">> \o ZFill(Str(m), 2)

\* the ratio upside down
LtvCacRatio_inverse(l, spend) == RDiv(spend, l)

\* ltv / marketing_spend, one row of ltv_cac
LtvCacRatio(l, spend) == RDiv(l, spend)

(***************************************************************************)
(* The retention simulation's steps.                                       *)
(***************************************************************************)
\* range(12)
MonthRange_short == 13 - 1

\* range(13)
MonthRange == 13

\* group.shape[0]
InitialCustomers(group) == Len(group)

\* the mean of the adjusted churn rates
AvgChurn_adj(group) ==
    Mean([i \in 1..Len(group) |-> ChurnRateAdj(group[i].churn_rate)])

\* group["churn_rate"].mean(): over the raw churn rates of the group's rows
AvgChurn(group) == Mean(Column(group, "churn_rate"))

\* (1 + avg_churn) ** month
RetentionRate_plus(avg, m) == Pow(RAdd(One, avg), m)

\* the months run from 1
RetentionRate_next(avg, m) == Pow(RSub(One, avg), m + 1)

\* (1 - avg_churn) * month
RetentionRate_times(avg, m) ==
    LET r == RMul(RSub(One, avg), <<m, 1>>)
    IN  [neg |-> r[1] < 0, int |-> Abs(r[1]) \div r[2],
         frac |-> <<Abs(r[1]) % r[2]>>, base |-> r[2]]

\* (1 - avg_churn) ** month
RetentionRate(avg, m) == Pow(RSub(One, avg), m)

\* round(x): to the nearest integer, a tie to the even one
Round(x) ==
    LET twice == FixMul([x EXCEPT !.int = 0, !.neg = FALSE], 2)
        up == \/ twice.int = 1 /\ ~FracIsZero(twice)
              \/ twice.int = 1 /\ FracIsZero(twice) /\ x.int % 2 = 1
        mag == IF up THEN x.int + 1 ELSE x.int
    IN  IF x.neg THEN -mag ELSE mag

\* round(initial_customers * retention_rate)
RetainedCustomers_round(initial, rate) == Round(FixMul(rate, initial))

\* int(initial_customers * retention_rate)
RetainedCustomers(initial, rate) == Trunc(FixMul(rate, initial))

\* the group of a cohort label: the rows of the table with that label, in
\* input order
Group(labels, table, label) == Select(labels, table, label)

\* lines 98, 113-127 as a function of the table: the set of emitted points
RetentionPoints(table) ==
    LET labels == [i \in 1..Len(table) |-> CohortMonth(table[i].year, table[i].month)]
    IN  {[cohort_month |-> l,
          months_since_acquisition |-> m,
          customers_remaining |->
              RetainedCustomers(InitialCustomers(Group(labels, table, l)),
                                RetentionRate(AvgChurn(Group(labels, table, l)), m))] :
         l \in Range(labels), m \in 0..(MonthRange - 1)}

(***************************************************************************)
(* Initial states: the script has not run; the input file is any table of  *)
(* the domain, or is unreadable.                                           *)
(***************************************************************************)
Fresh ==
    /\ pc = "load"
    /\ df = <<>>
    /\ cac_by_channel = <<>>
    /\ churn_rate_adj = <<>>
    /\ ltv = <<>>
    /\ ltv_by_channel = <<>>
    /\ ltv_cac = <<>>
    /\ cohort_month = <<>>
    /\ cohort_sizes = <<>>
    /\ cohorts = <<>>
    /\ ci = 0
    /\ initial_customers = 0
    /\ avg_churn = Zero
    /\ month = 0
    /\ retention_records = <<>>
    /\ cohort_matrix = <<>>
    /\ arpu_region = <<>>
    /\ files = <<>>

Init ==
    /\ csv \in {[ok |-> FALSE, rows |-> <<>>]} \cup {[ok |-> TRUE, rows |-> t] : t \in CohortTables}
    /\ Fresh

InitLtv ==
    /\ csv \in {[ok |-> FALSE, rows |-> <<>>]} \cup {[ok |-> TRUE, rows |-> t] : t \in LtvTables}
    /\ Fresh

InitChannel ==
    /\ csv \in {[ok |-> FALSE, rows |-> <<>>]} \cup {[ok |-> TRUE, rows |-> t] : t \in ChannelTables}
    /\ Fresh

(***************************************************************************)
(* The script, one action per statement.                                   *)
(***************************************************************************)
\* the failure is swallowed and the script goes on with an empty table
LoadFail_goes_on ==
    /\ pc = "load"
    /\ ~csv.ok
    /\ pc' = "cac_by_channel"
    /\ UNCHANGED <<csv, df, cac_by_channel, churn_rate_adj, ltv, ltv_by_channel,
                   ltv_cac, cohort_month, cohort_sizes, cohorts, ci,
                   initial_customers, avg_churn, month, retention_records,
                   cohort_matrix, arpu_region, files>>

\* line 33: pd.read_csv raises; nothing catches it
LoadFail ==
    /\ pc = "load"
    /\ ~csv.ok
    /\ pc' = "aborted"
    /\ UNCHANGED <<csv, df, cac_by_channel, churn_rate_adj, ltv, ltv_by_channel,
                   ltv_cac, cohort_month, cohort_sizes, cohorts, ci,
                   initial_customers, avg_churn, month, retention_records,
                   cohort_matrix, arpu_region, files>>

\* line 33: df = pd.read_csv(...)
LoadOk ==
    /\ pc = "load"
    /\ csv.ok
    /\ df' = csv.rows
    /\ pc' = "cac_by_channel"
    /\ UNCHANGED <<csv, cac_by_channel, churn_rate_adj, ltv, ltv_by_channel,
                   ltv_cac, cohort_month, cohort_sizes, cohorts, ci,
                   initial_customers, avg_churn, month, retention_records,
                   cohort_matrix, arpu_region, files>>

\* line 57
CacByChannel ==
    /\ pc = "cac_by_channel"
    /\ cac_by_channel' =
         LET g == GroupMean(Column(df, "acquisition_channel"),
                            Column(df, "marketing_spend"), ChannelNames)
         IN  [j \in 1..Len(g) |->
                 [acquisition_channel |-> g[j].k, marketing_spend |-> g[j].v]]
    /\ pc' = "churn_rate_adj"
    /\ UNCHANGED <<csv, df, churn_rate_adj, ltv, ltv_by_channel,
                   ltv_cac, cohort_month, cohort_sizes, cohorts, ci,
                   initial_customers, avg_churn, month, retention_records,
                   cohort_matrix, arpu_region, files>>

\* line 62
AdjustChurn ==
    /\ pc = "churn_rate_adj"
    /\ churn_rate_adj' = [i \in 1..Len(df) |-> ChurnRateAdj(df[i].churn_rate)]
    /\ pc' = "ltv"
    /\ UNCHANGED <<csv, df, cac_by_channel, ltv, ltv_by_channel,
                   ltv_cac, cohort_month, cohort_sizes, cohorts, ci,
                   initial_customers, avg_churn, month, retention_records,
                   cohort_matrix, arpu_region, files>>

\* line 65
ComputeLtv ==
    /\ pc = "ltv"
    /\ ltv' = [i \in 1..Len(df) |->
                  Ltv(df[i].arpu, df[i].gross_margin, churn_rate_adj[i])]
    /\ pc' = "ltv_by_channel"
    /\ UNCHANGED <<csv, df, cac_by_channel, churn_rate_adj, ltv_by_channel,
                   ltv_cac, cohort_month, cohort_sizes, cohorts, ci,
                   initial_customers, avg_churn, month, retention_records,
                   cohort_matrix, arpu_region, files>>

\* line 75
LtvByChannel ==
    /\ pc = "ltv_by_channel"
    /\ ltv_by_channel' =
         LET g == GroupMean(Column(df, "acquisition_channel"), ltv, ChannelNames)
         IN  [j \in 1..Len(g) |-> [acquisition_channel |-> g[j].k, ltv |-> g[j].v]]
    /\ pc' = "merge"
    /\ UNCHANGED <<csv, df, cac_by_channel, churn_rate_adj, ltv,
                   ltv_cac, cohort_month, cohort_sizes, cohorts, ci,
                   initial_customers, avg_churn, month, retention_records,
                   cohort_matrix, arpu_region, files>>

\* lines 82-86
Merge ==
    /\ pc = "merge"
    /\ ltv_cac' = MergeOnChannel(ltv_by_channel, cac_by_channel)
    /\ pc' = "ltv_cac_ratio"
    /\ UNCHANGED <<csv, df, cac_by_channel, churn_rate_adj, ltv, ltv_by_channel,
                   cohort_month, cohort_sizes, cohorts, ci,
                   initial_customers, avg_churn, month, retention_records,
                   cohort_matrix, arpu_region, files>>

\* line 89
Ratio ==
    /\ pc = "ltv_cac_ratio"
    /\ ltv_cac' = [j \in 1..Len(ltv_cac) |->
                      [acquisition_channel |-> ltv_cac[j].acquisition_channel,
                       ltv |-> ltv_cac[j].ltv,
                       marketing_spend |-> ltv_cac[j].marketing_spend,
                       ltv_cac_ratio |->
                           LtvCacRatio(ltv_cac[j].ltv, ltv_cac[j].marketing_spend)]]
    /\ pc' = "cohort_month"
    /\ UNCHANGED <<csv, df, cac_by_channel, churn_rate_adj, ltv, ltv_by_channel,
                   cohort_month, cohort_sizes, cohorts, ci,
                   initial_customers, avg_churn, month, retention_records,
                   cohort_matrix, arpu_region, files>>

\* line 98
LabelCohorts ==
    /\ pc = "cohort_month"
    /\ cohort_month' = [i \in 1..Len(df) |-> CohortMonth(df[i].year, df[i].month)]
    /\ pc' = "cohort_sizes"
    /\ UNCHANGED <<csv, df, cac_by_channel, churn_rate_adj, ltv, ltv_by_channel,
                   ltv_cac, cohort_sizes, cohorts, ci,
                   initial_customers, avg_churn, month, retention_records,
                   cohort_matrix, arpu_region, files>>

\* lines 102-103: groupby("cohort_month")["customer_id"].nunique()
CohortSizes ==
    /\ pc = "cohort_sizes"
    /\ cohort_sizes' =
         LET ks == SortStrings(Range(cohort_month))
         IN  [j \in 1..Len(ks) |->
                 [cohort_month |-> ks[j],
                  num_customers |->
                      Cardinality(Range(Select(cohort_month,
                                               Column(df, "customer_id"), ks[j])))]]
    /\ pc' = "retention"
    /\ UNCHANGED <<csv, df, cac_by_channel, churn_rate_adj, ltv, ltv_by_channel,
                   ltv_cac, cohort_month, cohorts, ci,
                   initial_customers, avg_churn, month, retention_records,
                   cohort_matrix, arpu_region, files>>

\* lines 111, 113: the empty list, and the groups of df.groupby("cohort_month")
BeginRetention ==
    /\ pc = "retention"
    /\ retention_records' = <<>>
    /\ cohorts' = SortStrings(Range(cohort_month))
    /\ ci' = 1
    /\ pc' = "cohort"
    /\ UNCHANGED <<csv, df, cac_by_channel, churn_rate_adj, ltv, ltv_by_channel,
                   ltv_cac, cohort_month, cohort_sizes,
                   initial_customers, avg_churn, month,
                   cohort_matrix, arpu_region, files>>

\* lines 113-116: the next cohort and its group
EnterCohort ==
    /\ pc = "cohort"
    /\ ci <= Len(cohorts)
    /\ initial_customers' = InitialCustomers(Group(cohort_month, df, cohorts[ci]))
    /\ avg_churn' = AvgChurn(Group(cohort_month, df, cohorts[ci]))
    /\ month' = 0
    /\ pc' = "month"
    /\ UNCHANGED <<csv, df, cac_by_channel, churn_rate_adj, ltv, ltv_by_channel,
                   ltv_cac, cohort_month, cohort_sizes, cohorts, ci,
                   retention_records, cohort_matrix, arpu_region, files>>

\* line 113: the groups are exhausted
LeaveCohorts ==
    /\ pc = "cohort"
    /\ ci > Len(cohorts)
    /\ pc' = "pivot"
    /\ UNCHANGED <<csv, df, cac_by_channel, churn_rate_adj, ltv, ltv_by_channel,
                   ltv_cac, cohort_month, cohort_sizes, cohorts, ci,
                   initial_customers, avg_churn, month, retention_records,
                   cohort_matrix, arpu_region, files>>

\* lines 119-127: one iteration of the month loop
SimulateMonth ==
    /\ pc = "month"
    /\ month < MonthRange
    /\ retention_records' =
         Append(retention_records,
                [cohort_month |-> cohorts[ci],
                 months_since_acquisition |-> month,
                 customers_remaining |->
                     RetainedCustomers(initial_customers,
                                       RetentionRate(avg_churn, month))])
    /\ IF month + 1 < MonthRange
         THEN month' = month + 1 /\ UNCHANGED <<ci, pc>>
         ELSE ci' = ci + 1 /\ pc' = "cohort" /\ UNCHANGED month
    /\ UNCHANGED <<csv, df, cac_by_channel, churn_rate_adj, ltv, ltv_by_channel,
                   ltv_cac, cohort_month, cohort_sizes, cohorts,
                   initial_customers, avg_churn,
                   cohort_matrix, arpu_region, files>>

PivotKeys == {<<retention_records[i].cohort_month,
                retention_records[i].months_since_acquisition>> :
              i \in 1..Len(retention_records)}

\* lines 129, 137-141: a DataFrame of no records has no columns, so pivot
\* raises KeyError; pivot raises ValueError on a duplicate (index, column)
Pivot ==
    /\ pc = "pivot"
    /\ IF retention_records = <<>> \/ Cardinality(PivotKeys) # Len(retention_records)
         THEN pc' = "aborted" /\ UNCHANGED cohort_matrix
         ELSE /\ cohort_matrix' =
                   [k \in PivotKeys |->
                       LET i == CHOOSE i \in 1..Len(retention_records) :
                                  /\ retention_records[i].cohort_month = k[1]
                                  /\ retention_records[i].months_since_acquisition = k[2]
                       IN  retention_records[i].customers_remaining]
              /\ pc' = "plot1"
    /\ UNCHANGED <<csv, df, cac_by_channel, churn_rate_adj, ltv, ltv_by_channel,
                   ltv_cac, cohort_month, cohort_sizes, cohorts, ci,
                   initial_customers, avg_churn, month, retention_records,
                   arpu_region, files>>

\* plt.savefig(name)
SaveFig(at, name, next) ==
    /\ pc = at
    /\ files' = Append(files, name)
    /\ pc' = next
    /\ UNCHANGED <<csv, df, cac_by_channel, churn_rate_adj, ltv, ltv_by_channel,
                   ltv_cac, cohort_month, cohort_sizes, cohorts, ci,
                   initial_customers, avg_churn, month, retention_records,
                   cohort_matrix, arpu_region>>

\* lines 147-154
Plot1 == SaveFig("plot1", "plot1_cohort_heatmap.png", "plot2")

\* lines 159-186
Plot2 == SaveFig("plot2", "plot2_ltv_vs_cac.png", "plot3")

\* lines 189-215
Plot3 == SaveFig("plot3", "plot3_ltv_cac_ratio.png", "arpu_region")

\* line 218
ArpuRegion ==
    /\ pc = "arpu_region"
    /\ arpu_region' =
         LET g == GroupMean(Column(df, "region"), Column(df, "arpu"), RegionNames)
         IN  [j \in 1..Len(g) |-> [region |-> g[j].k, arpu |-> g[j].v]]
    /\ pc' = "plot4"
    /\ UNCHANGED <<csv, df, cac_by_channel, churn_rate_adj, ltv, ltv_by_channel,
                   ltv_cac, cohort_month, cohort_sizes, cohorts, ci,
                   initial_customers, avg_churn, month, retention_records,
                   cohort_matrix, files>>

\* lines 220-247
Plot4 == SaveFig("plot4", "plot4_arpu_by_region.png", "done")

Next ==
    \/ LoadFail
    \/ LoadOk
    \/ CacByChannel
    \/ AdjustChurn
    \/ ComputeLtv
    \/ LtvByChannel
    \/ Merge
    \/ Ratio
    \/ LabelCohorts
    \/ CohortSizes
    \/ BeginRetention
    \/ EnterCohort
    \/ LeaveCohorts
    \/ SimulateMonth
    \/ Pivot
    \/ Plot1
    \/ Plot2
    \/ Plot3
    \/ ArpuRegion
    \/ Plot4

Spec == Init /\ [][Next]_vars

SpecLtv == InitLtv /\ [][Next]_vars

SpecChannel == InitChannel /\ [][Next]_vars

(***************************************************************************)
(* Reference quantities of the properties, computed from the input table   *)
(* by set operations rather than by the script's own steps.                *)
(***************************************************************************)
RECURSIVE SumOver(_, _)
SumOver(col, S) ==
    IF S = {} THEN Zero
    ELSE LET i == CHOOSE i \in S : TRUE
         IN  RAdd(col[i], SumOver(col, S \ {i}))

MeanOver(col, S) == RDiv(SumOver(col, S), <<Cardinality(S), 1>>)

\* the rows of the table that carry a cohort label
RowsOf(label) == {i \in 1..Len(cohort_month) : cohort_month[i] = label}

CohortSize(label) == Cardinality(RowsOf(label))

\* the mean raw churn rate of a cohort
CohortChurn(label) == MeanOver(Column(df, "churn_rate"), RowsOf(label))

\* initial_customers * (1 - avg_churn) ^ m, exactly
Decay(label, m) == FixMul(Pow(RSub(One, CohortChurn(label)), m), CohortSize(label))

InUnit(r) == r[1] >= 0 /\ r[1] <= r[2]

Labels == Range(cohort_month)

PointIds == 1..Len(retention_records)

\* the simulation loop has just ended: every point has been emitted
Emitted == pc = "pivot"

\* the simulation loop has ended
SimulationFinished ==
    \/ pc \in {"pivot", "plot1", "plot2", "plot3", "arpu_region", "plot4", "done"}
    \/ pc = "aborted" /\ csv.ok

(***************************************************************************)
(* C1 as stated: within every cohort the emitted customers_remaining is    *)
(* non-increasing in months_since_acquisition.                             *)
(***************************************************************************)
C1_NonIncreasingEveryCohort ==
    Emitted =>
        \A i \in PointIds : \A j \in PointIds :
            (/\ retention_records[i].cohort_month = retention_records[j].cohort_month
             /\ retention_records[i].months_since_acquisition
                  < retention_records[j].months_since_acquisition)
            => retention_records[j].customers_remaining
                 <= retention_records[i].customers_remaining

(***************************************************************************)
(* C1 amended: within every cohort whose average churn rate lies in        *)
(* [0, 1], customers_remaining is non-increasing in the month.             *)
(***************************************************************************)
C1_NonIncreasingUnitChurn ==
    Emitted =>
        \A i \in PointIds : \A j \in PointIds :
            (/\ retention_records[i].cohort_month = retention_records[j].cohort_month
             /\ retention_records[i].months_since_acquisition
                  < retention_records[j].months_since_acquisition
             /\ InUnit(CohortChurn(retention_records[i].cohort_month)))
            => retention_records[j].customers_remaining
                 <= retention_records[i].customers_remaining

\* a finished curve of a cohort of two with churn strictly inside (0, 1)
\* that has lost customers
C1_Witness ==
    /\ pc = "pivot"
    /\ \E i \in PointIds :
         LET r == retention_records[i]
         IN  /\ CohortSize(r.cohort_month) = 2
             /\ CohortChurn(r.cohort_month) = <<1, 2>>
             /\ r.months_since_acquisition = 12
             /\ r.customers_remaining = 0

(***************************************************************************)
(* C2 as stated: every emitted customers_remaining is                      *)
(* floor(initial_customers * (1 - avg_churn)^m), for any churn values.     *)
(***************************************************************************)
C2_EqualsFloor ==
    Emitted =>
        \A i \in PointIds :
            LET r == retention_records[i]
            IN  r.customers_remaining
                  = Floor(Decay(r.cohort_month, r.months_since_acquisition))

(***************************************************************************)
(* C2 amended: every emitted customers_remaining is                        *)
(* initial_customers * (1 - avg_churn)^m truncated toward zero, the mean   *)
(* taken over the raw churn rates; it is the floor whenever that product   *)
(* is not negative.                                                        *)
(***************************************************************************)
C2_EqualsTruncation ==
    Emitted =>
        \A i \in PointIds :
            LET r == retention_records[i]
                x == Decay(r.cohort_month, r.months_since_acquisition)
            IN  /\ r.customers_remaining = Trunc(x)
                /\ (~x.neg => r.customers_remaining = Floor(x))

\* the finished curve of a cohort of two with average churn 5/4: month 1 has
\* the negative product -0.5, month 2 the product 0.125, both cut to 0
C2_Witness ==
    /\ Emitted
    /\ \E i \in PointIds : \E j \in PointIds :
         LET r == retention_records[i]
             q == retention_records[j]
         IN  /\ r.cohort_month = q.cohort_month
             /\ CohortSize(r.cohort_month) = 2
             /\ CohortChurn(r.cohort_month) = <<5, 4>>
             /\ r.months_since_acquisition = 1
             /\ Decay(r.cohort_month, 1).neg
             /\ r.customers_remaining = 0
             /\ q.months_since_acquisition = 2
             /\ q.customers_remaining = 0

(***************************************************************************)
(* C3: the point emitted for month 0 of a cohort carries the cohort's      *)
(* number of records, whatever its average churn.                          *)
(***************************************************************************)
C3_MonthZeroIsInitial ==
    Emitted =>
        \A i \in PointIds :
            retention_records[i].months_since_acquisition = 0
            => retention_records[i].customers_remaining
                 = CohortSize(retention_records[i].cohort_month)

\* the finished curve of a cohort of two whose average churn is outside
\* [0, 1] and that is not constant
C3_Witness ==
    /\ Emitted
    /\ \E i \in PointIds : \E j \in PointIds :
         /\ retention_records[i].months_since_acquisition = 0
         /\ CohortSize(retention_records[i].cohort_month) = 2
         /\ ~InUnit(CohortChurn(retention_records[i].cohort_month))
         /\ retention_records[j].cohort_month = retention_records[i].cohort_month
         /\ retention_records[j].customers_remaining
              # retention_records[i].customers_remaining

(***************************************************************************)
(* C4: when the simulation has finished, retention_records holds exactly   *)
(* one point per (distinct cohort label, month in 0..12): 13 points per    *)
(* label, no key twice, and the pivot has one value per cell.              *)
(***************************************************************************)
C4_OnePointPerCohortMonth ==
    SimulationFinished =>
        /\ Len(retention_records) = 13 * Cardinality(Labels)
        /\ \A i \in PointIds : \A j \in PointIds :
             (/\ retention_records[i].cohort_month = retention_records[j].cohort_month
              /\ retention_records[i].months_since_acquisition
                   = retention_records[j].months_since_acquisition)
             => i = j
        /\ PivotKeys = Labels \X (0..12)
        /\ (pc \in {"plot1", "plot2", "plot3", "arpu_region", "plot4", "done"}
              => /\ DOMAIN cohort_matrix = Labels \X (0..12)
                 /\ \A i \in PointIds :
                      cohort_matrix[<<retention_records[i].cohort_month,
                                      retention_records[i].months_since_acquisition>>]
                        = retention_records[i].customers_remaining)

\* the pivot of two cohorts has been built
C4_Witness ==
    /\ pc = "plot1"
    /\ Cardinality(Labels) = 2
    /\ Len(retention_records) = 26

(***************************************************************************)
(* C5: a cohort whose average raw churn rate is 0 is emitted with its       *)
(* initial count in each of the 13 months 0..12.                           *)
(***************************************************************************)
C5_ZeroChurnConstant ==
    Emitted =>
        \A l \in Labels :
            CohortChurn(l) = Zero
            => \A m \in 0..12 : \E i \in PointIds :
                  /\ retention_records[i].cohort_month = l
                  /\ retention_records[i].months_since_acquisition = m
                  /\ retention_records[i].customers_remaining = CohortSize(l)

\* the finished curve of a cohort of two records that both have churn 0
C5_Witness ==
    /\ Emitted
    /\ \E l \in Labels :
         /\ CohortSize(l) = 2
         /\ \A i \in RowsOf(l) : df[i].churn_rate = Zero
         /\ \E i \in PointIds :
              /\ retention_records[i].cohort_month = l
              /\ retention_records[i].months_since_acquisition = 12
              /\ retention_records[i].customers_remaining = 2

(***************************************************************************)
(* C6: a cohort whose average churn rate is 1 has customers_remaining 0    *)
(* in every month 1..12 and its initial count in month 0.                  *)
(***************************************************************************)
C6_FullChurnCollapses ==
    Emitted =>
        \A i \in PointIds :
            LET r == retention_records[i]
            IN  CohortChurn(r.cohort_month) = One
                => r.customers_remaining
                     = (IF r.months_since_acquisition = 0
                          THEN CohortSize(r.cohort_month) ELSE 0)

\* the finished curve of a cohort of two with average churn 1
C6_Witness ==
    /\ pc = "pivot"
    /\ \E l \in Labels :
         /\ CohortChurn(l) = One
         /\ CohortSize(l) = 2
         /\ \E i \in PointIds :
              /\ retention_records[i].cohort_month = l
              /\ retention_records[i].months_since_acquisition = 12

(***************************************************************************)
(* C7: the LTV of a record is (arpu * gross_margin) / adjusted churn; the  *)
(* adjusted churn is the raw churn_rate, except that 0 becomes 0.0001; the *)
(* divisor is never 0; a record with churn 0 has the LTV of an otherwise   *)
(* identical record with churn 0.0001.                                     *)
(***************************************************************************)
LtvComputed == csv.ok /\ pc \notin {"load", "cac_by_channel", "churn_rate_adj", "ltv"}

C7_LtvChurnFloor ==
    LtvComputed =>
        /\ \A i \in 1..Len(df) :
             LET c == df[i].churn_rate
                 d == churn_rate_adj[i]
             IN  /\ d[1] # 0
                 /\ d = (IF c = <<0, 1>> THEN <<1, 10000>> ELSE c)
                 /\ IsFinite(ltv[i])
                 /\ RMul(ltv[i], d) = RMul(df[i].arpu, df[i].gross_margin)
        /\ \A i \in 1..Len(df) : \A j \in 1..Len(df) :
             (/\ df[i].arpu = df[j].arpu
              /\ df[i].gross_margin = df[j].gross_margin
              /\ df[i].churn_rate = <<0, 1>>
              /\ df[j].churn_rate = <<1, 10000>>)
             => ltv[i] = ltv[j]

\* LTV has been computed for a record with churn 0, an otherwise identical
\* one with churn 0.0001 and one with another churn rate
C7_Witness ==
    /\ LtvComputed
    /\ \E i \in 1..Len(df) : \E j \in 1..Len(df) : \E k \in 1..Len(df) :
         /\ df[i].gross_margin = df[j].gross_margin
         /\ df[i].churn_rate = <<0, 1>>
         /\ df[j].churn_rate = <<1, 10000>>
         /\ df[k].churn_rate = <<1, 2>>
         /\ ltv[i] = <<500000, 1>>
         /\ ltv[k] = <<100, 1>>

(***************************************************************************)
(* C8: ltv_cac has exactly one row per acquisition channel present in the  *)
(* data, and its ltv_cac_ratio is the channel's mean LTV divided by the    *)
(* channel's mean marketing spend, both over the channel's records.        *)
(***************************************************************************)
RatioComputed ==
    /\ csv.ok
    /\ pc \notin {"load", "cac_by_channel", "churn_rate_adj", "ltv",
                  "ltv_by_channel", "merge", "ltv_cac_ratio"}

ChannelsPresent == {df[i].acquisition_channel : i \in 1..Len(df)}

RowsOfChannel(ch) == {i \in 1..Len(df) : df[i].acquisition_channel = ch}

C8_RatioPerChannel ==
    RatioComputed =>
        /\ Len(ltv_cac) = Cardinality(ChannelsPresent)
        /\ {ltv_cac[j].acquisition_channel : j \in 1..Len(ltv_cac)} = ChannelsPresent
        /\ \A j \in 1..Len(ltv_cac) :
             LET S == RowsOfChannel(ltv_cac[j].acquisition_channel)
                 l == MeanOver(ltv, S)
                 c == MeanOver(Column(df, "marketing_spend"), S)
             IN  /\ ltv_cac[j].ltv = l
                 /\ ltv_cac[j].marketing_spend = c
                 /\ IsFinite(ltv_cac[j].ltv_cac_ratio)
                 /\ RMul(ltv_cac[j].ltv_cac_ratio, c) = l

\* the ratio has been computed for two channels, one of them with two
\* records of different LTV and different spend
C8_Witness ==
    /\ RatioComputed
    /\ Len(ltv_cac) = 2
    /\ \E i \in 1..Len(df) : \E j \in 1..Len(df) :
         /\ df[i].acquisition_channel = df[j].acquisition_channel
         /\ ltv[i] # ltv[j]
         /\ df[i].marketing_spend # df[j].marketing_spend

(***************************************************************************)
(* C9: two records get the same cohort label exactly when they have the    *)
(* same year and the same month; the month-0 counts of all cohorts add up  *)
(* to the number of records; and the set of emitted points is the same for *)
(* every permutation of the input records.                                 *)
(***************************************************************************)
Labelled ==
    /\ csv.ok
    /\ pc \notin {"load", "cac_by_channel", "churn_rate_adj", "ltv",
                  "ltv_by_channel", "merge", "ltv_cac_ratio", "cohort_month"}

RECURSIVE MonthZeroTotal(_)
MonthZeroTotal(n) ==
    IF n = 0 THEN 0
    ELSE MonthZeroTotal(n - 1)
           + (IF retention_records[n].months_since_acquisition = 0
                THEN retention_records[n].customers_remaining ELSE 0)

Permute(table, p) == [i \in 1..Len(table) |-> table[p[i]]]

FourImages == <<"plot1_cohort_heatmap.png", "plot2_ltv_vs_cac.png",
                "plot3_ltv_cac_ratio.png", "plot4_arpu_by_region.png">>

IsPrefix(s, t) == Len(s) <= Len(t) /\ \A i \in 1..Len(s) : s[i] = t[i]

NothingComputed ==
    /\ cac_by_channel = <<>> /\ churn_rate_adj = <<>> /\ ltv = <<>>
    /\ ltv_by_channel = <<>> /\ ltv_cac = <<>> /\ cohort_month = <<>>
    /\ cohort_sizes = <<>> /\ retention_records = <<>> /\ cohort_matrix = <<>>
    /\ arpu_region = <<>>

\* loader 0, deriver 1, simulator 2, reporter 3, end of the run 4
Stage ==
    CASE pc = "load" -> 0
      [] pc \in {"cac_by_channel", "churn_rate_adj", "ltv", "ltv_by_channel",
                 "merge", "ltv_cac_ratio"} -> 1
      [] pc \in {"cohort_month", "cohort_sizes", "retention", "cohort", "month"} -> 2
      [] pc \in {"pivot", "plot1", "plot2", "plot3", "arpu_region", "plot4"} -> 3
      [] OTHER -> 4

\* what holds of every run, whatever the table
PipelineOrder ==
    /\ pc = "load" => df = <<>> /\ NothingComputed /\ files = <<>>
    /\ ~csv.ok => pc \in {"load", "aborted"} /\ df = <<>> /\ NothingComputed /\ files = <<>>
    /\ IsPrefix(files, FourImages)
    /\ Stage <= 1 => retention_records = <<>> /\ cohort_month = <<>>
    /\ Stage <= 2 => files = <<>> /\ cohort_matrix = <<>>
    /\ Stage >= 2 /\ csv.ok => Len(ltv_cac) = Cardinality(ChannelsPresent)
    /\ pc = "done" => files = FourImages

Prologue == <<"load", "cac_by_channel", "churn_rate_adj", "ltv", "ltv_by_channel",
              "merge", "ltv_cac_ratio", "cohort_month", "cohort_sizes", "retention">>

\* the statements after the cohort loop, in program order
Epilogue == <<"pivot", "plot1", "plot2", "plot3", "arpu_region", "plot4", "done">>

\* the number of statements executed when the run is at pc
Position ==
    CASE pc \in Range(Prologue) -> Rank(Prologue, pc)
      [] pc = "cohort" -> 11 + 14 * (ci - 1)
      [] pc = "month" -> 12 + 14 * (ci - 1) + month
      [] pc \in Range(Epilogue) -> 11 + 14 * Len(cohorts) + Rank(Epilogue, pc)
      [] OTHER -> 20 + 14 * (Len(csv.rows) + 1)

\* a run that has not ended is at a statement whose loop variables are in range
CanStep ==
    /\ pc \in Range(Prologue) \cup Range(Epilogue) \cup {"cohort", "month", "aborted"}
    /\ pc = "cohort" => ci \in 1..(Len(cohorts) + 1)
    /\ pc = "month" => ci \in 1..Len(cohorts) /\ month \in 0..12

RunOutcome ==
    /\ PipelineOrder
    /\ CanStep
    /\ csv.ok /\ csv.rows # <<>> => pc # "aborted"
    /\ csv.ok /\ csv.rows = <<>> => pc # "done" /\ files = <<>>

====
